---- MODULE Spec2Model ----
(***************************************************************************)
(* Model of python_file_discovery.py: the parallel directory scan          *)
(* (scan_directory, process_file, process_directory), the per-entry        *)
(* metadata collection (get_file_info), the recursive size aggregation     *)
(* (get_directory_size), the drain of the result queue and save_to_csv.    *)
(*                                                                         *)
(* Strings that the code inspects (names, paths, extensions) are sequences *)
(* of character codes, so that basename, splitext, lower() and string      *)
(* comparison are computed the way Python computes them.                   *)
(***************************************************************************)
EXTENDS Integers, Sequences, FiniteSets, TLC

\* line 147: the number of worker threads of the pool.
max_workers == 100

-----------------------------------------------------------------------------
(* Python values *)

\* Python's None, and a present value, for the fields that may be None.
None == <<>>
Some(v) == <<v>>

\* The path separator "\", the extension separator "." and the root prefix.
SepStr == <<92>>
DotStr == <<46>>
DrivePrefix == <<88, 58, 92>>

\* line 9
RECYCLE_BIN == <<36, 82, 69, 67, 89, 67, 76, 69, 46, 66, 73, 78>>
SYSTEM_VOLUME_INFORMATION ==
    <<83, 121, 115, 116, 101, 109, 32, 86, 111, 108, 117, 109, 101, 32,
      73, 110, 102, 111, 114, 109, 97, 116, 105, 111, 110>>
EXCLUDED_FOLDERS == {RECYCLE_BIN, SYSTEM_VOLUME_INFORMATION}

-----------------------------------------------------------------------------
(* The filesystem the scan reads *)

\* The places of the tree: the scan root, two children of the root, a child
\* of each of them, and a child of g1 (three levels below the root).
Nodes == {"root", "c1", "c2", "g1", "g2", "h1"}
Parent == [c1 |-> "root", c2 |-> "root", g1 |-> "c1", g2 |-> "c2",
           h1 |-> "g1"]
\* The orders in which os.scandir may return the entries of the
\* directories: it promises none, so the two entries of the root come in
\* either order.
Listings ==
    {[root |-> <<"c1", "c2">>, c1 |-> <<"g1">>, c2 |-> <<"g2">>,
      g1 |-> <<"h1">>, g2 |-> <<>>, h1 |-> <<>>],
     [root |-> <<"c2", "c1">>, c1 |-> <<"g1">>, c2 |-> <<"g2">>,
      g1 |-> <<"h1">>, g2 |-> <<>>, h1 |-> <<>>]}

\* What each place may be.
KindChoices == [root |-> {"dir"},
                c1 |-> {"absent", "file", "dir"},
                c2 |-> {"absent", "file", "dir"},
                g1 |-> {"absent", "file", "dir"},
                g2 |-> {"absent", "file"},
                h1 |-> {"absent", "file"}]
\* The names each place may carry: "R", "a", "A", "B", "c", "g", "f.txt" and
\* the two excluded names. c1 and c2 may differ in letter case only, as in a
\* case-sensitive directory.
NameChoices == [root |-> <<(<<82>>), RECYCLE_BIN>>,
                c1 |-> <<(<<97>>), RECYCLE_BIN>>,
                c2 |-> <<(<<65>>), (<<66>>)>>,
                g1 |-> <<(<<99>>), SYSTEM_VOLUME_INFORMATION>>,
                g2 |-> <<(<<103>>)>>,
                h1 |-> <<(<<102, 46, 116, 120, 116>>)>>]
\* st_size of each place when it is a file, and its timestamps.
FileSize == [root |-> 0, c1 |-> 7, c2 |-> 2048, g1 |-> 1536, g2 |-> 64,
             h1 |-> 500]
Birthtime == [root |-> 10, c1 |-> 11, c2 |-> 12, g1 |-> 13, g2 |-> 14,
              h1 |-> 15]
Mtime == [root |-> 20, c1 |-> 21, c2 |-> 22, g1 |-> 23, g2 |-> 24,
          h1 |-> 25]

\* The trees: a place exists only in a directory.
Kinds ==
    {k \in [Nodes -> {"absent", "file", "dir"}] :
       \A n \in Nodes :
          /\ k[n] \in KindChoices[n]
          /\ (n # "root" /\ k[n] # "absent") => k[Parent[n]] = "dir"}

\* The names of the places of a tree, by one choice per place.
NamesOf(k, pick) ==
    [n \in Nodes |->
       IF k[n] = "absent" THEN <<>>
       ELSE NameChoices[n][IF pick[n] <= Len(NameChoices[n]) THEN pick[n]
                           ELSE 1]]

\* What may be wrong with a place: its stat fails ("stat"), its listing fails
\* ("list"), or its security descriptor cannot be read ("sec"). The last
\* touches two fields of the place's own record only and is explored on the
\* root and on c1.
Faults ==
    {[type |-> "none", node |-> "root"]}
       \cup [type : {"stat", "list"}, node : Nodes]
       \cup [type : {"sec"}, node : {"root", "c1"}]

FaultSet(f, type) == IF f.type = type THEN {f.node} ELSE {}

\* The entries of every directory of a tree, in the order of a listing.
ListingOf(k, l) ==
    [n \in Nodes |-> SelectSeq(l[n], LAMBDA e : k[e] # "absent")]

\* A filesystem: kind and name of every place, the order in which the
\* entries of every directory are listed, the places whose stat fails, the
\* directories whose listing fails, and the places whose security
\* descriptor cannot be read. At most one place is faulty.
Filesystems ==
    {[kind |-> k[1], name |-> NamesOf(k[1], pick),
      listing |-> ListingOf(k[1], k[2]),
      statFail |-> FaultSet(f, "stat"), listFail |-> FaultSet(f, "list"),
      secFail |-> FaultSet(f, "sec")] :
        k \in Kinds \X Listings, pick \in [Nodes -> 1..2],
        f \in {g \in Faults : TRUE}}

WellFormed(F) ==
    /\ \A n \in F.statFail \cup F.secFail : F.kind[n] # "absent"
    /\ \A n \in F.listFail : F.kind[n] = "dir"

-----------------------------------------------------------------------------
(* Strings *)

Min(S) == CHOOSE x \in S : \A y \in S : x <= y
Max(S) == CHOOSE x \in S : \A y \in S : x >= y

\* str.rfind of a one-character string: the last index, 0 when absent.
RFind(s, ch) ==
    LET hits == {i \in 1..Len(s) : s[i] = ch[1]}
    IN  IF hits = {} THEN 0 ELSE Max(hits)

\* str.lower() on the letters A-Z.
Lower(s) == [i \in 1..Len(s) |-> IF s[i] \in 65..90 THEN s[i] + 32 ELSE s[i]]

\* Python's < on strings: by code point, a proper prefix is smaller.
StrLess(a, b) ==
    LET m == IF Len(a) < Len(b) THEN Len(a) ELSE Len(b)
        diff == {i \in 1..m : a[i] # b[i]}
    IN  IF diff = {} THEN Len(a) < Len(b)
        ELSE a[Min(diff)] < b[Min(diff)]

\* os.path.join(root, name)
Join(p, name) == p \o SepStr \o name

\* os.path.basename(path)
Basename(p) == SubSeq(p, RFind(p, SepStr) + 1, Len(p))

\* os.path.splitext(path)[1]: from the last dot of the last component, unless
\* that component has only dots before it.
SplitextExt(p) ==
    LET sepIndex == RFind(p, SepStr)
        dotIndex == RFind(p, DotStr)
    IN  IF dotIndex > sepIndex
           /\ \E i \in (sepIndex + 1)..(dotIndex - 1) : p[i] # DotStr[1]
        THEN SubSeq(p, dotIndex, Len(p))
        ELSE <<>>

\* os.path.abspath of a path that is already absolute and normalised.
Abspath(p) == p

RECURSIVE PathOf(_, _)
\* The path under which the scan meets a place: the root path, and below it
\* os.path.join(root, name) at every level.
PathOf(F, n) ==
    IF n = "root" THEN DrivePrefix \o F.name["root"]
    ELSE Join(PathOf(F, Parent[n]), F.name[n])

-----------------------------------------------------------------------------
(* format_size *)

\* round(x * 100) of x = n / d as f"{x:.2f}" prints it: to the nearest
\* hundredth, a tie going to the even one.
Hundredths(n, d) ==
    LET q == (n * 100) \div d
        r == (n * 100) % d
    IN  IF 2 * r > d \/ (2 * r = d /\ q % 2 = 1) THEN q + 1 ELSE q

TwoDecimals(n, d, unit) ==
    [int |-> Hundredths(n, d) \div 100, dec |-> Some(Hundredths(n, d) % 100),
     unit |-> unit]

\* lines 27-38; the text "<int>[.<dec>] <unit>" as its three parts.
format_size(size_in_bytes) ==
    IF size_in_bytes = None THEN [int |-> 0, dec |-> None, unit |-> "B"]
    ELSE LET n == size_in_bytes[1] IN
         IF n < 1024 THEN [int |-> n, dec |-> None, unit |-> "B"]
         ELSE IF n < 1024 * 1024 THEN TwoDecimals(n, 1024, "KB")
         ELSE IF n < 1024 * 1024 * 1024 THEN TwoDecimals(n, 1024 * 1024, "MB")
         ELSE TwoDecimals(n, 1024 * 1024 * 1024, "GB")

-----------------------------------------------------------------------------
(* Directory listing, get_directory_size, get_file_info *)

\* The entries os.scandir(path) yields, in order.
Scandir(F, n) == F.listing[n]

RECURSIVE get_directory_size(_, _)
RECURSIVE SizeLoop(_, _, _, _)
\* lines 123-129: the loop over the entries es from position i on. A stat
\* that raises leaves the loop (lines 130-133) with the total so far.
SizeLoop(F, es, i, total_size) ==
    IF i > Len(es) THEN total_size
    ELSE IF F.name[es[i]] \in EXCLUDED_FOLDERS
         THEN SizeLoop(F, es, i + 1, total_size)
    ELSE IF F.kind[es[i]] = "file"
         THEN IF es[i] \in F.statFail THEN total_size
              ELSE SizeLoop(F, es, i + 1, total_size + FileSize[es[i]])
    ELSE SizeLoop(F, es, i + 1, total_size + get_directory_size(F, es[i]))

\* lines 119-134; os.scandir raising gives 0.
get_directory_size(F, n) ==
    IF F.kind[n] # "dir" \/ n \in F.listFail THEN 0
    ELSE SizeLoop(F, Scandir(F, n), 1, 0)

\* lines 40-55 and 58-67: the lookups are opaque; a failure gives the
\* placeholder text.
get_permissions(F, n) ==
    IF n \in F.secFail THEN "Error retrieving permissions" ELSE "FullControl"
get_owner(F, n) ==
    IF n \in F.secFail THEN "Error retrieving owner" ELSE "DOMAIN\\account"

\* datetime.fromtimestamp and datetime.strftime
FromTimestamp(t) == [tag |-> "datetime", t |-> t]
Strftime(d) == [tag |-> "str", t |-> d.t]

\* lines 89-95: the counts of the immediate children.
CountFiles(F, n) ==
    Cardinality({i \in 1..Len(Scandir(F, n)) :
                   F.kind[Scandir(F, n)[i]] = "file"})
CountFolders(F, n) ==
    Cardinality({i \in 1..Len(Scandir(F, n)) :
                   /\ F.kind[Scandir(F, n)[i]] = "dir"
                   /\ F.name[Scandir(F, n)[i]] \notin EXCLUDED_FOLDERS})

\* lines 71-117: the record of a path, or None.
get_file_info(F, n) ==
    LET path == PathOf(F, n)
        is_directory == F.kind[n] = "dir"
        counted == is_directory /\ Basename(path) \notin EXCLUDED_FOLDERS
        file_count == IF counted THEN Some(CountFiles(F, n)) ELSE None
        folder_count == IF counted THEN Some(CountFolders(F, n)) ELSE None
        number_of_items ==
            IF counted THEN Some(CountFiles(F, n) + CountFolders(F, n))
            ELSE None
        size == IF counted THEN Some(get_directory_size(F, n))
                ELSE IF is_directory THEN None ELSE Some(FileSize[n])
    IN  IF n \in F.statFail \/ (counted /\ n \in F.listFail) THEN None
        ELSE Some([Name |-> Basename(path),
                   Path |-> Abspath(path),
                   Type |-> IF is_directory THEN "Directory" ELSE "File",
                   Extension |-> IF is_directory THEN None
                                 ELSE Some(SplitextExt(path)),
                   Size |-> format_size(size),
                   Permissions |-> get_permissions(F, n),
                   Owner |-> get_owner(F, n),
                   CreatedDate |-> FromTimestamp(Birthtime[n]),
                   ModifiedDate |-> FromTimestamp(Mtime[n]),
                   NumberOfItems |-> number_of_items,
                   FolderCount |-> folder_count,
                   FileCount |-> file_count])

\* lines 162-166: what process_file puts into the queue.
process_file(F, n) == get_file_info(F, n)

\* lines 168-174: what process_directory puts into the queue.
process_directory(F, n) ==
    IF get_file_info(F, n) = None THEN None
    ELSE Some([get_file_info(F, n)[1] EXCEPT
                 !.Size = format_size(Some(get_directory_size(F, n)))])

\* queue.put
Put(q, info) == IF info = None THEN q ELSE Append(q, info[1])

-----------------------------------------------------------------------------
(* os.walk and the submission of tasks *)

\* line 149: the names os.walk yields for a directory, files and dirs.
WalkFiles(F, d) == SelectSeq(Scandir(F, d), LAMBDA e : F.kind[e] # "dir")
WalkDirs(F, d) == SelectSeq(Scandir(F, d), LAMBDA e : F.kind[e] = "dir")

\* A walk without the filter of line 150.
FilterDirsNone(F, dirs) == dirs

\* line 150
FilterDirs(F, dirs) ==
    SelectSeq(dirs, LAMBDA e : F.name[e] \notin EXCLUDED_FOLDERS)

Task(e, fn) == [node |-> e, fn |-> fn, st |-> "pending", put |-> FALSE]
TasksOf(es, fn) == [i \in 1..Len(es) |-> Task(es[i], fn)]

\* A submission that forgets the directories.
SubmitListFilesOnly(files, dirs) == TasksOf(files, "process_file")

\* lines 151-156: the tasks submitted for one directory, in order.
SubmitList(files, dirs) ==
    TasksOf(files, "process_file") \o TasksOf(dirs, "process_directory")

\* A walk that gives up at the first directory it cannot list.
WalkAfterErrorStop(stack) == <<>>

\* os.walk with onerror=None: a directory that cannot be listed is skipped.
WalkAfterError(stack) == Tail(stack)

\* A join that does not wait.
AllDoneNoWait(futs) == TRUE

\* lines 158-159 and the end of the with block: every future has completed.
AllDone(futs) == \A i \in 1..Len(futs) : futs[i].st = "done"

-----------------------------------------------------------------------------
(* The drain and save_to_csv *)

\* A drain that leaves the last record in the queue.
DrainAllButLast(q) == IF q = <<>> THEN q ELSE SubSeq(q, 1, Len(q) - 1)

\* lines 216-218: queue.get until the queue is empty.
DrainAll(q) == q

\* A sort key without lower().
SortKeyRaw(r) == r.Path

\* line 180: the sort key.
SortKey(r) == Lower(r.Path)

RECURSIVE InsertSorted(_, _, _)
\* The position-preserving insertion of index k into the sorted indices s:
\* behind every index whose key is not greater.
InsertSorted(list, s, k) ==
    IF s = <<>> THEN <<k>>
    ELSE IF StrLess(SortKey(list[k]), SortKey(list[Head(s)]))
         THEN <<k>> \o s
         ELSE <<Head(s)>> \o InsertSorted(list, Tail(s), k)

RECURSIVE SortedUpTo(_, _)
SortedUpTo(list, k) ==
    IF k = 0 THEN <<>> ELSE InsertSorted(list, SortedUpTo(list, k - 1), k)

\* line 180: sorted() is stable; the result as indices into the list, whose
\* dicts the sorted list shares.
Sorted(list) == SortedUpTo(list, Len(list))

\* lines 189-190
FormatDates(r) == [r EXCEPT !.CreatedDate = Strftime(r.CreatedDate),
                            !.ModifiedDate = Strftime(r.ModifiedDate)]

-----------------------------------------------------------------------------
(* State *)

VARIABLES
    fs,              \* the filesystem, unchanged during the scan
    pc,              \* where the main thread is
    queue,           \* the Queue of line 211
    offered,         \* every record ever put into the queue, in order
    walkStack,       \* os.walk: the directories still to be listed
    opened,          \* os.walk: the directories it has listed
    pending,         \* the tasks of the current directory not yet submitted
    futures,         \* the submitted tasks and their states
    file_info_list,  \* the list the main thread drains into
    sortedIdx,       \* save_to_csv: the sorted list, as indices
    rowPos,          \* save_to_csv: the number of rows handed to the writer
    csv              \* the output file: its rows, buffered ones included

vars == <<fs, pc, queue, offered, walkStack, opened, pending, futures,
          file_info_list, sortedIdx, rowPos, csv>>

NoFile == [exists |-> FALSE, rows |-> <<>>, complete |-> FALSE]

Init ==
    /\ fs \in Filesystems
    /\ WellFormed(fs)
    /\ pc = "root"
    /\ queue = <<>>
    /\ offered = <<>>
    /\ walkStack = <<"root">>
    /\ opened = {}
    /\ pending = <<>>
    /\ futures = <<>>
    /\ file_info_list = <<>>
    /\ sortedIdx = <<>>
    /\ rowPos = 0
    /\ csv = NoFile

\* lines 141-145: the root's own record.
scan_root ==
    /\ pc = "root"
    /\ pc' = "walk"
    /\ queue' = Put(queue, process_directory(fs, "root"))
    /\ offered' = Put(offered, process_directory(fs, "root"))
    /\ UNCHANGED <<fs, walkStack, opened, pending, futures, file_info_list,
                   sortedIdx, rowPos, csv>>

\* line 149-150: os.walk lists the next directory, top-down.
walk_next ==
    /\ pc = "walk"
    /\ pending = <<>>
    /\ walkStack # <<>>
    /\ LET d == Head(walkStack) IN
       IF d \in fs.listFail
       THEN /\ walkStack' = WalkAfterError(walkStack)
            /\ UNCHANGED <<opened, pending>>
       ELSE LET dirs == FilterDirs(fs, WalkDirs(fs, d)) IN
            /\ pending' = SubmitList(WalkFiles(fs, d), dirs)
            /\ walkStack' = dirs \o Tail(walkStack)
            /\ opened' = opened \cup {d}
    /\ UNCHANGED <<fs, pc, queue, offered, futures, file_info_list,
                   sortedIdx, rowPos, csv>>

\* lines 153 and 156: executor.submit of the next task.
submit ==
    /\ pc = "walk"
    /\ pending # <<>>
    /\ futures' = Append(futures, Head(pending))
    /\ pending' = Tail(pending)
    /\ UNCHANGED <<fs, pc, queue, offered, walkStack, opened, file_info_list,
                   sortedIdx, rowPos, csv>>

Running == {i \in 1..Len(futures) : futures[i].st = "running"}
Pending == {i \in 1..Len(futures) : futures[i].st = "pending"}

\* A pool whose threads never take a task.
HasIdleWorkerNever(running) == FALSE

\* line 147: fewer than max_workers threads are busy.
HasIdleWorker(running) == Cardinality(running) < max_workers

\* line 147: a worker thread takes the oldest waiting task.
worker_start ==
    /\ Pending # {}
    /\ HasIdleWorker(Running)
    /\ futures' = [futures EXCEPT ![Min(Pending)].st = "running"]
    /\ UNCHANGED <<fs, pc, queue, offered, walkStack, opened, pending,
                   file_info_list, sortedIdx, rowPos, csv>>

TaskResult(t) ==
    IF t.fn = "process_file" THEN process_file(fs, t.node)
    ELSE process_directory(fs, t.node)

\* lines 162-174: a worker computes the record of its task and puts it into
\* the queue; the task is still running when queue.put returns.
worker_run(i) ==
    /\ i \in 1..Len(futures)
    /\ futures[i].st = "running"
    /\ ~futures[i].put
    /\ futures' = [futures EXCEPT ![i].put = TRUE]
    /\ queue' = Put(queue, TaskResult(futures[i]))
    /\ offered' = Put(offered, TaskResult(futures[i]))
    /\ UNCHANGED <<fs, pc, walkStack, opened, pending, file_info_list,
                   sortedIdx, rowPos, csv>>

\* lines 166 and 174: process_file or process_directory returns and the
\* executor marks the future as finished.
worker_done(i) ==
    /\ i \in 1..Len(futures)
    /\ futures[i].st = "running"
    /\ futures[i].put
    /\ futures' = [futures EXCEPT ![i].st = "done"]
    /\ UNCHANGED <<fs, pc, queue, offered, walkStack, opened, pending,
                   file_info_list, sortedIdx, rowPos, csv>>

\* lines 158-159: the walk is over, every future has completed and the
\* executor has shut down; scan_directory returns.
scan_return ==
    /\ pc = "walk"
    /\ pending = <<>>
    /\ walkStack = <<>>
    /\ AllDone(futures)
    /\ pc' = "returned"
    /\ UNCHANGED <<fs, queue, offered, walkStack, opened, pending, futures,
                   file_info_list, sortedIdx, rowPos, csv>>

\* lines 215-218
drain ==
    /\ pc = "returned"
    /\ pc' = "drained"
    /\ file_info_list' = DrainAll(queue)
    /\ queue' = SubSeq(queue, Len(DrainAll(queue)) + 1, Len(queue))
    /\ UNCHANGED <<fs, offered, walkStack, opened, pending, futures,
                   sortedIdx, rowPos, csv>>

\* lines 180-186: sort, open the file, write the header.
save_open ==
    /\ pc = "drained"
    /\ pc' = "rows"
    /\ sortedIdx' = Sorted(file_info_list)
    /\ csv' = [exists |-> TRUE, rows |-> <<>>, complete |-> FALSE]
    /\ UNCHANGED <<fs, queue, offered, walkStack, opened, pending, futures,
                   file_info_list, rowPos>>

\* lines 182 and 193-194: the file cannot be opened.
save_open_fail ==
    /\ pc = "drained"
    /\ pc' = "done"
    /\ sortedIdx' = Sorted(file_info_list)
    /\ UNCHANGED <<fs, queue, offered, walkStack, opened, pending, futures,
                   file_info_list, rowPos, csv>>

\* lines 186 and 193-194: the file is open and writing the header raises.
save_header_fail ==
    /\ pc = "drained"
    /\ pc' = "done"
    /\ sortedIdx' = Sorted(file_info_list)
    /\ csv' = [exists |-> TRUE, rows |-> <<>>, complete |-> FALSE]
    /\ UNCHANGED <<fs, queue, offered, walkStack, opened, pending, futures,
                   file_info_list, rowPos>>

\* lines 187-191: the next row; the dates of the dict are replaced.
save_row ==
    /\ pc = "rows"
    /\ rowPos < Len(sortedIdx)
    /\ LET k == sortedIdx[rowPos + 1] IN
       /\ file_info_list' =
             [file_info_list EXCEPT ![k] = FormatDates(file_info_list[k])]
       /\ csv' = [csv EXCEPT !.rows = Append(@, FormatDates(file_info_list[k]))]
    /\ rowPos' = rowPos + 1
    /\ UNCHANGED <<fs, pc, queue, offered, walkStack, opened, pending,
                   futures, sortedIdx>>

\* lines 191 and 193-194: writing the next row raises, after its dates have
\* been replaced. The rows go through the file's buffer, the one whose
\* writerow raised (while flushing) included: the close at the end of the
\* with block flushes again, and the file keeps the first n of them, from
\* none to all with the row that raised.
save_row_fail ==
    /\ pc = "rows"
    /\ rowPos < Len(sortedIdx)
    /\ pc' = "done"
    /\ LET k == sortedIdx[rowPos + 1] IN
       /\ file_info_list' =
             [file_info_list EXCEPT ![k] = FormatDates(file_info_list[k])]
       /\ \E n \in 0..(Len(csv.rows) + 1) :
             csv' = [csv EXCEPT !.rows =
                        SubSeq(Append(@, FormatDates(file_info_list[k])),
                               1, n)]
    /\ UNCHANGED <<fs, queue, offered, walkStack, opened, pending, futures,
                   sortedIdx, rowPos>>

\* lines 182 and 193-194: every row has been written and the flush at the
\* end of the with block raises; line 192 is not reached. The file keeps
\* the first n rows: fewer than all when the buffer could not be flushed,
\* all of them when only the last line end is missing or when the close
\* itself reports an error after the flush.
save_close_fail ==
    /\ pc = "rows"
    /\ rowPos = Len(sortedIdx)
    /\ pc' = "done"
    /\ \E n \in 0..Len(csv.rows) :
          csv' = [csv EXCEPT !.rows = SubSeq(@, 1, n)]
    /\ UNCHANGED <<fs, queue, offered, walkStack, opened, pending, futures,
                   file_info_list, sortedIdx, rowPos>>

\* line 192: the file is closed.
save_finish ==
    /\ pc = "rows"
    /\ rowPos = Len(sortedIdx)
    /\ pc' = "done"
    /\ csv' = [csv EXCEPT !.complete = TRUE]
    /\ UNCHANGED <<fs, queue, offered, walkStack, opened, pending, futures,
                   file_info_list, sortedIdx, rowPos>>

Next ==
    \/ scan_root
    \/ walk_next
    \/ submit
    \/ worker_start
    \/ \E i \in 1..Len(futures) : worker_run(i)
    \/ \E i \in 1..Len(futures) : worker_done(i)
    \/ scan_return
    \/ drain
    \/ save_open
    \/ save_open_fail
    \/ save_header_fail
    \/ save_row
    \/ save_row_fail
    \/ save_close_fail
    \/ save_finish

Spec == Init /\ [][Next]_vars

\* The steps of the main thread, up to the end of the drain.
MainThread == scan_root \/ walk_next \/ submit \/ scan_return \/ drain

\* The start of a scan whose termination is checked: every tree, with or
\* without excluded folders, with at most one place whose stat or listing
\* fails. The root's name, the letter case of c2's name and a failing
\* security lookup change no step of the traversal and are left fixed; so
\* is the order of the root's two entries, which changes the order of the
\* steps and not their number.
FairInit ==
    /\ Init
    /\ fs.name["root"] = NameChoices["root"][1]
    /\ fs.kind["c2"] # "absent" => fs.name["c2"] = NameChoices["c2"][1]
    /\ fs.secFail = {}
    /\ fs.listing["root"] # <<"c2", "c1">>

\* The steps of the pool's threads: taking a waiting task, running a task
\* to its end.
WorkerThreads ==
    \/ worker_start
    \/ \E i \in 1..Len(futures) : worker_run(i)
    \/ \E i \in 1..Len(futures) : worker_done(i)

\* A step of the scan, by the main thread or by a thread of the pool.
ScanStep == MainThread \/ WorkerThreads

\* The scan under fair scheduling: while some thread of the scan can take a
\* step, a step of the scan is eventually taken.
FairSpec ==
    /\ FairInit
    /\ [][Next]_vars
    /\ WF_vars(ScanStep)

-----------------------------------------------------------------------------
(* What the claims speak of *)

RECURSIVE AncestorsOf(_)
\* The directories above a place, the root included.
AncestorsOf(n) ==
    IF n = "root" THEN {} ELSE {Parent[n]} \cup AncestorsOf(Parent[n])

Below(D) == {n \in Nodes : D \in AncestorsOf(n)}

\* A directory below the root that carries an excluded name.
ExcludedDir(F, n) ==
    n # "root" /\ F.kind[n] = "dir" /\ F.name[n] \in EXCLUDED_FOLDERS

\* The place is such a directory or lies in one.
InExcludedSubtree(F, n) ==
    \E a \in AncestorsOf(n) \cup {n} : ExcludedDir(F, a)

\* The files and directories under the root outside every excluded folder.
NonExcludedEntries(F) ==
    {n \in Nodes \ {"root"} : F.kind[n] # "absent" /\ ~InExcludedSubtree(F, n)}

\* Every directory above the place can be listed.
Reachable(F, n) == \A a \in AncestorsOf(n) : a \notin F.listFail

RecordsAt(list, p) == {i \in 1..Len(list) : list[i].Path = p}

Count(list, r) == Cardinality({i \in 1..Len(list) : list[i] = r})

Returned == pc \in {"returned", "drained", "rows", "done"}
Drained == pc \in {"drained", "rows", "done"}

\* The filesystem without its excluded folders and what they hold.
Pruned(F) ==
    [kind |-> [n \in Nodes |-> IF InExcludedSubtree(F, n) THEN "absent"
                               ELSE F.kind[n]],
     name |-> [n \in Nodes |-> IF InExcludedSubtree(F, n) THEN <<>>
                               ELSE F.name[n]],
     listing |-> [n \in Nodes |->
                    IF InExcludedSubtree(F, n) THEN <<>>
                    ELSE SelectSeq(F.listing[n],
                                   LAMBDA e : ~InExcludedSubtree(F, e))],
     statFail |-> {n \in F.statFail : ~InExcludedSubtree(F, n)},
     listFail |-> {n \in F.listFail : ~InExcludedSubtree(F, n)},
     secFail |-> {n \in F.secFail : ~InExcludedSubtree(F, n)}]

\* The record a scan offers for a place of a filesystem, or None.
RecordOf(F, n) ==
    IF F.kind[n] = "dir" THEN process_directory(F, n) ELSE process_file(F, n)

-----------------------------------------------------------------------------
(* C1 *)

\* C1, as claimed: once the queue has been drained, every non-excluded file
\* or directory under the root has exactly one record bearing its path.
C1_ExactlyOneRecordPerEntry ==
    Drained =>
       \A n \in NonExcludedEntries(fs) :
          Cardinality(RecordsAt(file_info_list, PathOf(fs, n))) = 1

\* C1, amended: once the queue has been drained, a non-excluded entry under
\* the root has exactly one record when the walk can reach it (every
\* directory above it can be listed) and its own stat and, for a directory,
\* its own listing succeed; otherwise it has none; and no path has two
\* records, whatever the interleaving of the workers.
C1_OneRecordPerCollectedEntry ==
    Drained =>
       /\ \A n \in NonExcludedEntries(fs) :
             Cardinality(RecordsAt(file_info_list, PathOf(fs, n))) =
                IF Reachable(fs, n) /\ n \notin fs.statFail
                      /\ n \notin fs.listFail
                THEN 1 ELSE 0
       /\ \A i, j \in 1..Len(file_info_list) :
             file_info_list[i].Path = file_info_list[j].Path => i = j

\* A drained scan of the deepest tree, every entry non-excluded and
\* collected.
C1_Witness ==
    /\ pc = "drained"
    /\ Cardinality(NonExcludedEntries(fs)) = 5
    /\ Len(file_info_list) = 6

-----------------------------------------------------------------------------
(* C2 *)

\* C2, as claimed: every run puts exactly one record for the root into the
\* queue, no task is submitted for the root, and for an empty root the
\* drained result is that one record with size 0 and item count 0.
C2_RootRecordUnconditional ==
    /\ pc # "root" =>
          Cardinality(RecordsAt(offered, PathOf(fs, "root"))) = 1
    /\ \A i \in 1..Len(futures) : futures[i].node # "root"
    /\ (pc = "drained" /\ Scandir(fs, "root") = <<>>) =>
          /\ Len(file_info_list) = 1
          /\ file_info_list[1].Size = [int |-> 0, dec |-> None, unit |-> "B"]
          /\ file_info_list[1].NumberOfItems = Some(0)

-----------------------------------------------------------------------------
(* C3 *)

\* C3: scan_directory returns, and the drain starts, only when the walk is
\* over and every submitted task has completed; after the return nothing is
\* put into the queue, and the drained list holds as many records as were
\* ever offered.
C3_DrainAfterAllTasks ==
    /\ [](Returned =>
            /\ \A i \in 1..Len(futures) : futures[i].st = "done"
            /\ pending = <<>>
            /\ walkStack = <<>>)
    /\ [](Drained => Len(file_info_list) = Len(offered))
    /\ [][Returned => offered' = offered]_vars

\* scan_directory has returned from a scan that ran five tasks.
C3_Witness == pc = "returned" /\ Len(futures) = 5

-----------------------------------------------------------------------------
(* C4 *)

\* C4: the drain returns exactly the records that were put into the queue,
\* each as often as it was put, and leaves the queue empty.
C4_DrainReturnsEveryOffer ==
    pc = "drained" =>
       /\ queue = <<>>
       /\ Len(file_info_list) = Len(offered)
       /\ \A i \in 1..Len(offered) :
             Count(file_info_list, offered[i]) = Count(offered, offered[i])

\* A drained scan in which two workers put their records in the order
\* opposite to the one their tasks were submitted in.
C4_Witness ==
    /\ pc = "drained"
    /\ Len(file_info_list) >= 3
    /\ fs.kind["c1"] = "file" /\ fs.kind["c2"] = "file"
    /\ \E i, j \in 1..Len(file_info_list) :
          /\ i < j
          /\ file_info_list[i].Path = PathOf(fs, "c2")
          /\ file_info_list[j].Path = PathOf(fs, "c1")

-----------------------------------------------------------------------------
(* C5 *)

\* C5: a folder with an excluded name below the root, at any depth, is never
\* listed by the walk; no task is submitted for it or for anything in it; no
\* record bears its path or a path in it; and every record offered is the
\* one the same scan offers on the filesystem without the excluded folders,
\* so they add nothing to any size or count.
C5_ExcludedFoldersInvisible ==
    /\ \A n \in opened : ~InExcludedSubtree(fs, n)
    /\ \A i \in 1..Len(walkStack) : ~InExcludedSubtree(fs, walkStack[i])
    /\ \A i \in 1..Len(pending) : ~InExcludedSubtree(fs, pending[i].node)
    /\ \A i \in 1..Len(futures) : ~InExcludedSubtree(fs, futures[i].node)
    /\ \A i \in 1..Len(offered) : \A n \in Nodes :
          InExcludedSubtree(fs, n) => offered[i].Path # PathOf(fs, n)
    /\ pc = "returned" =>
          LET P == Pruned(fs)
              clean == {RecordOf(P, n) :
                          n \in {m \in Nodes : ~InExcludedSubtree(fs, m)}}
          IN  /\ \A i \in 1..Len(offered) : Some(offered[i]) \in clean
              /\ \A n \in Nodes :
                    ~InExcludedSubtree(fs, n) =>
                       get_directory_size(fs, n) = get_directory_size(P, n)

\* A drained scan of a tree with an excluded folder two levels below the
\* root that holds a file, next to a file in the root.
C5_Witness ==
    /\ pc = "drained"
    /\ ExcludedDir(fs, "g1") /\ fs.kind["h1"] = "file"
    /\ ~ExcludedDir(fs, "c1")
    /\ fs.kind["c2"] = "file"
    /\ Len(file_info_list) = 3

-----------------------------------------------------------------------------
(* C6 *)

RECURSIVE SumSizes(_)
\* The sum of the sizes of a set of files.
SumSizes(S) ==
    IF S = {} THEN 0
    ELSE LET n == CHOOSE x \in S : TRUE IN FileSize[n] + SumSizes(S \ {n})

\* The files transitively under a directory.
FilesUnder(F, D) == {n \in Below(D) : F.kind[n] = "file"}

\* No directory under the directory carries an excluded name: all its
\* descendants are non-excluded.
NoExcludedBelow(F, D) == \A n \in Below(D) : ~ExcludedDir(F, n)

\* The sizes the records of a directory and of a file have to show.
SizesAsSummed(D) ==
    /\ get_directory_size(fs, D) = SumSizes(FilesUnder(fs, D))
    /\ \A i \in RecordsAt(offered, PathOf(fs, D)) :
          offered[i].Size = format_size(Some(SumSizes(FilesUnder(fs, D))))

\* C6, as claimed: when the scan has returned, for every directory D with
\* only non-excluded descendants, get_directory_size(D) is the sum of the
\* sizes of the files transitively under D, and D's record shows that sum.
C6_DirectorySizeIsSum ==
    pc = "returned" =>
       \A D \in Nodes :
          (fs.kind[D] = "dir" /\ NoExcludedBelow(fs, D)) => SizesAsSummed(D)

-----------------------------------------------------------------------------
(* C7 *)

\* C7: whatever cannot be stat'ed, listed or looked up, scan_directory
\* returns with a completed task for every non-excluded entry the walk can
\* reach, and with the record of every such entry whose own stat and listing
\* succeed.
C7_ErrorsStayLocal ==
    Returned =>
       \A n \in NonExcludedEntries(fs) :
          Reachable(fs, n) =>
             /\ \E i \in 1..Len(futures) :
                   futures[i].node = n /\ futures[i].st = "done"
             /\ (n \notin fs.statFail /\ n \notin fs.listFail) =>
                   RecordsAt(offered, PathOf(fs, n)) # {}

\* scan_directory has returned from a tree in which the directory c1 cannot
\* be listed, with the records of c2 and of the file in c2.
C7_Witness ==
    /\ pc = "returned"
    /\ fs.listFail = {"c1"}
    /\ RecordsAt(offered, PathOf(fs, "c1")) = {}
    /\ RecordsAt(offered, PathOf(fs, "c2")) # {}
    /\ fs.kind["g2"] = "file"
    /\ RecordsAt(offered, PathOf(fs, "g2")) # {}

-----------------------------------------------------------------------------
(* C8 *)

RowKey(i) == Lower(csv.rows[i].Path)

\* C8, as claimed: of every two consecutive rows the lower-cased path of the
\* first is strictly less than that of the second.
C8_RowsStrictlyAscending ==
    \A i \in 1..(Len(csv.rows) - 1) : StrLess(RowKey(i), RowKey(i + 1))

\* C8, amended: of every two consecutive rows the lower-cased path of the
\* first is strictly less than that of the second, or the two are equal and
\* the paths differ in letter case only.
C8_RowsAscending ==
    \A i \in 1..(Len(csv.rows) - 1) :
       \/ StrLess(RowKey(i), RowKey(i + 1))
       \/ /\ RowKey(i) = RowKey(i + 1)
          /\ csv.rows[i].Path # csv.rows[i + 1].Path

\* A complete report in which the paths of two rows differ in letter case
\* only.
C8_Witness ==
    /\ csv.complete
    /\ Len(csv.rows) >= 4
    /\ \E i \in 1..(Len(csv.rows) - 1) : RowKey(i) = RowKey(i + 1)

-----------------------------------------------------------------------------
(* C9 *)

RECURSIVE WalkTasks(_, _)
\* The tasks in the order in which the walk submits them.
WalkTasks(F, stack) ==
    IF stack = <<>> THEN <<>>
    ELSE IF Head(stack) \in F.listFail THEN WalkTasks(F, Tail(stack))
    ELSE LET dirs == FilterDirs(F, WalkDirs(F, Head(stack))) IN
         SubmitList(WalkFiles(F, Head(stack)), dirs)
            \o WalkTasks(F, dirs \o Tail(stack))

RECURSIVE PutAll(_, _, _)
PutAll(F, q, ts) ==
    IF ts = <<>> THEN q
    ELSE PutAll(F, Put(q, RecordOf(F, Head(ts).node)), Tail(ts))

\* The rows of the run in which every task completes before the next one
\* starts.
SequentialRows(F) ==
    LET list == PutAll(F, Put(<<>>, process_directory(F, "root")),
                       WalkTasks(F, <<"root">>))
    IN  [i \in 1..Len(list) |-> FormatDates(list[Sorted(list)[i]])]

\* C9, as claimed: the rows are the same for every interleaving of the
\* workers: those of the run in which the tasks complete one by one in the
\* order of submission.
C9_RowsIndependentOfInterleaving ==
    pc \in {"rows", "done"} =>
       \A i \in 1..Len(csv.rows) : csv.rows[i] = SequentialRows(fs)[i]

-----------------------------------------------------------------------------
(* C10 *)

ChildrenOf(F, D) == {n \in Nodes \ {"root"} : Parent[n] = D /\ F.kind[n] # "absent"}

\* C10, as claimed: every Directory record has NumberOfItems = FileCount +
\* FolderCount, the counts being those of the files and of the non-excluded
\* folders directly in the directory.
C10_ItemCountIsSum ==
    \A i \in 1..Len(offered) :
       offered[i].Type = "Directory" =>
          /\ offered[i].NumberOfItems # None
          /\ offered[i].FileCount # None
          /\ offered[i].FolderCount # None
          /\ offered[i].NumberOfItems[1] =
                offered[i].FileCount[1] + offered[i].FolderCount[1]
          /\ \A D \in Nodes :
                offered[i].Path = PathOf(fs, D) =>
                   /\ offered[i].FileCount[1] =
                         Cardinality({n \in ChildrenOf(fs, D) :
                                        fs.kind[n] = "file"})
                   /\ offered[i].FolderCount[1] =
                         Cardinality({n \in ChildrenOf(fs, D) :
                                        /\ fs.kind[n] = "dir"
                                        /\ fs.name[n] \notin EXCLUDED_FOLDERS})

-----------------------------------------------------------------------------
(* C11 *)

\* C11, as claimed: when save_to_csv has ended, whether it failed or not,
\* either the complete report exists or no report file exists.
C11_NoPartialFile ==
    pc = "done" => (csv.exists => csv.complete)

-----------------------------------------------------------------------------
(* C12 *)

RECURSIVE IsolatedSize(_, _)
\* The size of a directory when every entry that cannot be accessed counts
\* as zero and all the other entries count: a file that cannot be stat'ed
\* and a directory that cannot be listed give 0, excluded names are skipped.
IsolatedSize(F, D) ==
    IF F.kind[D] # "dir" \/ D \in F.listFail THEN 0
    ELSE LET es == {e \in Nodes \ {"root"} :
                      /\ Parent[e] = D
                      /\ F.kind[e] # "absent"
                      /\ F.name[e] \notin EXCLUDED_FOLDERS}
             part[e \in es] ==
                IF F.kind[e] = "file"
                THEN IF e \in F.statFail THEN 0 ELSE FileSize[e]
                ELSE IsolatedSize(F, e)
             sum[S \in SUBSET es] ==
                IF S = {} THEN 0
                ELSE LET e == CHOOSE x \in S : TRUE
                     IN  part[e] + sum[S \ {e}]
         IN  sum[es]

\* C12, as claimed: an entry that get_directory_size cannot access
\* contributes zero and all its accessible siblings, before and after it in
\* the listing, are still in the total, which is the Size of the record.
C12_FailingEntryCountsZero ==
    \A D \in Nodes :
       (pc = "returned" /\ fs.kind[D] = "dir") =>
          /\ get_directory_size(fs, D) = IsolatedSize(fs, D)
          /\ \A i \in RecordsAt(offered, PathOf(fs, D)) :
                offered[i].Size = format_size(Some(IsolatedSize(fs, D)))

-----------------------------------------------------------------------------
(* C13 *)

\* C13, as claimed: get_file_info returns None exactly when the path cannot
\* be stat'ed; so once scan_directory has returned, the root and every
\* non-excluded entry the walk can reach has a record unless its stat
\* fails, a directory whose children cannot be listed included, and a
\* failing owner or permission lookup shows as the placeholder text.
C13_OnlyStatFailureDropsRecord ==
    pc = "returned" =>
       /\ \A n \in Nodes :
             fs.kind[n] # "absent" =>
                (get_file_info(fs, n) = None <=> n \in fs.statFail)
       /\ \A n \in NonExcludedEntries(fs) \cup {"root"} :
             (Reachable(fs, n) /\ n \notin fs.statFail) =>
                /\ RecordsAt(offered, PathOf(fs, n)) # {}
                /\ \A i \in RecordsAt(offered, PathOf(fs, n)) :
                      n \in fs.secFail =>
                         /\ offered[i].Owner = "Error retrieving owner"
                         /\ offered[i].Permissions =
                               "Error retrieving permissions"

-----------------------------------------------------------------------------
(* C14 *)

\* The entries the walk discovers: outside every excluded folder, with every
\* directory above them listable.
Discovered(F) == {n \in NonExcludedEntries(F) : Reachable(F, n)}

\* The entries found in the directories the walk has listed.
Listed == {n \in Discovered(fs) : Parent[n] \in opened}

\* C14, the part that the trees explored here can show: never more than
\* max_workers tasks run at once (no tree has that many tasks, so the limit
\* never makes a task wait); submission does not wait for the pool:
\* whatever the number of tasks running or waiting, every entry of the
\* directories listed so far has its task submitted or is about to be
\* submitted by the loop of the current directory, which can take its next
\* step; tasks are submitted for discovered entries only, process_file for
\* what is not a directory and process_directory for a directory, never two
\* for one entry, and when scan_directory has returned every discovered
\* entry has had its task.
C14_BoundedPoolUnthrottledSubmission ==
    /\ Cardinality(Running) <= max_workers
    /\ \A n \in Listed :
          \/ \E i \in 1..Len(futures) : futures[i].node = n
          \/ \E i \in 1..Len(pending) : pending[i].node = n
    /\ (pc = "walk" /\ pending # <<>>) => ENABLED submit
    /\ \A i, j \in 1..Len(futures) :
          futures[i].node = futures[j].node => i = j
    /\ \A i \in 1..Len(futures) :
          /\ futures[i].node \in Discovered(fs)
          /\ futures[i].fn = IF fs.kind[futures[i].node] = "dir"
                             THEN "process_directory" ELSE "process_file"
    /\ Returned =>
          \A n \in Discovered(fs) :
             \E i \in 1..Len(futures) : futures[i].node = n

-----------------------------------------------------------------------------
(* C15 *)

\* C15, as claimed: the records of the drained list are, at every moment
\* from the drain to the end of save_to_csv, field for field the records
\* that were put into the queue.
C15_RecordsUnchangedAfterPut ==
    Drained =>
       /\ Len(file_info_list) = Len(offered)
       /\ \A i \in 1..Len(file_info_list) : file_info_list[i] = offered[i]

-----------------------------------------------------------------------------
(* C16 *)

\* C16: every task is submitted after the tasks of all the directories
\* below the root that contain its entry, and a record of the root, when
\* there is one, is the first ever put into the queue, before any task is
\* submitted.
C16_SubmissionInPreOrder ==
    /\ \A j \in 1..Len(futures) :
          \A D \in AncestorsOf(futures[j].node) \ {"root"} :
             \E i \in 1..(j - 1) : futures[i].node = D
    /\ \A i \in RecordsAt(offered, PathOf(fs, "root")) : i = 1
    /\ (futures # <<>> \/ pending # <<>>) =>
          /\ pc # "root"
          /\ ("root" \notin fs.statFail
                 /\ ("root" \notin fs.listFail
                        \/ fs.name["root"] \in EXCLUDED_FOLDERS)) =>
                RecordsAt(offered, PathOf(fs, "root")) = {1}

\* The task of a file has completed while the task of the directory that
\* holds it, submitted before, has not.
C16_Witness ==
    \E i, j \in 1..Len(futures) :
       /\ i < j
       /\ futures[i].node \in AncestorsOf(futures[j].node)
       /\ futures[j].st = "done"
       /\ futures[i].st # "done"
       /\ RecordsAt(offered, PathOf(fs, "root")) = {1}

-----------------------------------------------------------------------------
(* C17 *)

\* C17, as claimed: NumberOfItems, FileCount and FolderCount are present on
\* every Directory record, the root's included, and absent on every File
\* record.
C17_CountsOnDirectoriesOnly ==
    \A i \in 1..Len(offered) :
       IF offered[i].Type = "Directory"
       THEN /\ offered[i].NumberOfItems # None
            /\ offered[i].FileCount # None
            /\ offered[i].FolderCount # None
       ELSE /\ offered[i].NumberOfItems = None
            /\ offered[i].FileCount = None
            /\ offered[i].FolderCount = None

-----------------------------------------------------------------------------
(* C18 *)

\* The scan is over: the walk has nothing left to visit or to submit, every
\* submitted task has completed, scan_directory has returned and the drain
\* has emptied the queue.
ScanOver ==
    /\ Drained
    /\ walkStack = <<>>
    /\ pending = <<>>
    /\ AllDone(futures)
    /\ queue = <<>>

\* C18: under fair scheduling of the main thread and of the workers, every
\* scan of a finite tree terminates: the traversal finishes, every submitted
\* task completes, scan_directory returns and the drain runs.
C18_ScanTerminates == <>ScanOver

\* The drain has run after a scan of the deepest tree, whose five tasks
\* (each with its recursive size aggregation) have all completed.
C18_Witness ==
    /\ pc = "drained"
    /\ Len(futures) = Cardinality(Nodes) - 1
    /\ AllDone(futures)
    /\ queue = <<>>
    /\ Len(file_info_list) = Cardinality(Nodes)

-----------------------------------------------------------------------------
(* C19 *)

\* The files of a set of places that have a record among the offered ones.
FilesWithRecord(S) ==
    {n \in S : fs.kind[n] = "file" /\ RecordsAt(offered, PathOf(fs, n)) # {}}

\* C19, as claimed: when the scan has returned, the Size of every directory
\* record is the sum of the sizes of the files that have a record beneath
\* that directory, and its FileCount is present and covers every child file
\* that has a record, a file bearing an excluded folder name included.
C19_ExclusionAgrees ==
    pc = "returned" =>
       \A D \in Nodes : \A i \in RecordsAt(offered, PathOf(fs, D)) :
          fs.kind[D] = "dir" =>
             /\ offered[i].Size =
                   format_size(Some(SumSizes(FilesWithRecord(Below(D)))))
             /\ offered[i].FileCount # None
             /\ offered[i].FileCount[1] >=
                   Cardinality(FilesWithRecord(ChildrenOf(fs, D)))

====
